---- MODULE Spec2Model ----
(***************************************************************************)
(* A model of the API test generator of src/main.py: schema extraction,    *)
(* requirements building, default-body synthesis, field variations,        *)
(* single-field and combination test cases, the merge of oracle scenarios, *)
(* sequential execution and the report.                                    *)
(*                                                                         *)
(* Python values are tagged records [t, v]; a missing dictionary key is    *)
(* the value Absent; a dictionary is a function over its keys.             *)
(***************************************************************************)
EXTENDS Integers, Sequences, FiniteSets, TLC

VARIABLES
    pc,                 \* position in the pipeline being run
    openapi,            \* outcome of the fetch of openapi.json and its content
    requirements,       \* analyze_endpoint_requirements' result, or None
    default_body,       \* get_default_request_body's result
    selected_fields,    \* the fields chosen for testing, in order
    seed,               \* state of the random generators at the start of the run
    field_variations,   \* generate_test_cases: field -> list of values
    single_cases,       \* the cases the single-field pass emitted
    combo_cases,        \* the cases the combination pass emitted, or None
    gpt_response,       \* the scenario oracle's answer
    all_test_cases,     \* generate_test_cases' result, or None
    test_cases,         \* execute_test_cases' input
    idx,                \* execute_test_cases: cases handled so far
    requests_log,       \* the requests issued, in order
    results,            \* execute_test_cases' result list
    report,             \* generate_test_report's result, or None
    rules_response,     \* the validation-rule oracle's answer
    validation_rules,   \* generate_validation_rules' result, or None
    calls,              \* the functions run_complete_test_suite has called, in order
    final_result,       \* what run_complete_test_suite returned, or None
    session_state       \* st.session_state of the Streamlit app

vars == <<pc, openapi, requirements, default_body, selected_fields, seed,
          field_variations, single_cases, combo_cases, gpt_response, all_test_cases,
          test_cases, idx, requests_log, results, report,
          rules_response, validation_rules, calls, final_result, session_state>>

bodyVars == <<openapi, requirements, default_body>>
genVars == <<selected_fields, seed, field_variations, single_cases, combo_cases,
             gpt_response, all_test_cases>>
execVars == <<test_cases, idx, requests_log, results, report>>
suiteVars == <<rules_response, validation_rules, calls, final_result>>

----------------------------------------------------------------------------
(* Python values *)

PyStr(s) == [t |-> "str", v |-> s]
PyInt(n) == [t |-> "int", v |-> n]
PyBool(b) == [t |-> "bool", v |-> b]
PyList(s) == [t |-> "list", v |-> s]
PyDict(d) == [t |-> "dict", v |-> d]
PyNone == [t |-> "none", v |-> 0]
Absent == [t |-> "absent", v |-> 0]

\* Python's ==: bool is a subclass of int (True == 1), otherwise same type and value
PyNum(a) == IF a.t = "bool" THEN (IF a.v THEN 1 ELSE 0) ELSE a.v
PyEq(a, b) ==
    IF a.t \in {"int", "bool"} /\ b.t \in {"int", "bool"}
    THEN PyNum(a) = PyNum(b)
    ELSE a = b

\* the empty dictionary
EmptyDict == [k \in {} |-> Absent]

----------------------------------------------------------------------------
(* Field names: the substring tests of the code, tabulated over the names  *)
(* the model draws from.                                                   *)

FieldNames == {"email", "password", "name", "phone", "age", "active"}

\* field_name.lower() == 'email'
IsEmailName(field_name) == field_name = "email"

\* '<sub>' in field_name.lower()
NameContains(sub, field_name) ==
    <<sub, field_name>> \in {<<"email", "email">>, <<"password", "password">>,
                             <<"name", "name">>, <<"phone", "phone">>}

\* the order in which a document lists its properties
FieldOrder == <<"email", "password", "name", "phone", "age", "active">>

RECURSIVE FilterSeq(_, _)
FilterSeq(s, S) ==
    IF s = <<>> THEN <<>>
    ELSE IF Head(s) \in S THEN <<Head(s)>> \o FilterSeq(Tail(s), S)
    ELSE FilterSeq(Tail(s), S)

\* the keys of a dictionary over field names, in document order
KeysInOrder(S) == FilterSeq(FieldOrder, S)

----------------------------------------------------------------------------
(* analyze_endpoint_structure *)

\* lines 82-111: one property of the schema to its field data
ExampleByName(field_name, type, default) ==
    IF IsEmailName(field_name) THEN PyStr("user@gmail.com")
    ELSE IF NameContains("password", field_name) THEN PyStr("StrongPassword123!")
    ELSE IF type = PyStr("string") THEN PyStr("Sample " \o field_name)
    ELSE IF type = PyStr("boolean")
         THEN (IF default # Absent THEN default ELSE PyBool(TRUE))
    ELSE Absent

RECURSIVE AnyOfTypes(_)
AnyOfTypes(anyOf) ==
    IF anyOf = <<>> THEN <<>>
    ELSE IF Head(anyOf).type # Absent
         THEN <<Head(anyOf).type.v>> \o AnyOfTypes(Tail(anyOf))
    ELSE AnyOfTypes(Tail(anyOf))

RECURSIVE AnyOfFormat(_, _)
AnyOfFormat(anyOf, format) ==
    IF anyOf = <<>> THEN format
    ELSE AnyOfFormat(Tail(anyOf),
                     IF Head(anyOf).format # Absent THEN Head(anyOf).format
                     ELSE format)

process_property(field_name, field_info, required_fields) ==
    LET type0 == IF field_info.type # Absent THEN field_info.type
                 ELSE PyStr("string")
        type == IF field_info.anyOf # Absent
                THEN PyList(AnyOfTypes(field_info.anyOf.v))
                ELSE type0
        format == IF field_info.anyOf # Absent
                  THEN AnyOfFormat(field_info.anyOf.v, field_info.format)
                  ELSE field_info.format
    IN  [type |-> type,
         description |-> PyStr(""),
         required |-> field_name \in required_fields,
         format |-> format,
         default |-> field_info.default,
         example |-> ExampleByName(field_name, type, field_info.default)]

\* the three results the function returns
NotFoundResult ==
    [success |-> FALSE,
     error |-> "Endpoint or schema information not found in documentation",
     status_code |-> PyNone, sample_data |-> EmptyDict]
FetchFailedResult(status) ==
    [success |-> FALSE,
     error |-> "Failed to fetch OpenAPI documentation. Status code: " \o ToString(status),
     status_code |-> PyInt(status), sample_data |-> EmptyDict]
AnalysisFailedResult ==
    [success |-> FALSE, error |-> "Analysis failed: exception",
     status_code |-> PyNone, sample_data |-> EmptyDict]

analyze_endpoint_structure(doc) ==
    IF doc.fetch = "exception" THEN AnalysisFailedResult
    ELSE IF doc.status # 200 THEN FetchFailedResult(doc.status)
    ELSE IF ~doc.is_json THEN AnalysisFailedResult
    ELSE IF ~(doc.has_path /\ doc.has_post /\ doc.has_schema) THEN NotFoundResult
    ELSE IF ~doc.has_ref THEN NotFoundResult
    ELSE IF ~doc.ref_resolves THEN AnalysisFailedResult
    ELSE IF ~doc.has_properties THEN NotFoundResult
    ELSE [success |-> TRUE, error |-> "", status_code |-> PyInt(200),
          sample_data |->
              [f \in DOMAIN doc.properties |->
                  process_property(f, doc.properties[f], doc.required)]]

----------------------------------------------------------------------------
(* analyze_endpoint_requirements *)

FieldData(field_info) ==
    [type |-> field_info.type,
     description |-> field_info.description,
     required |-> field_info.required,
     format |-> field_info.format,
     default |-> field_info.default,
     example |-> field_info.example]

build_requirements(sample_data) ==
    LET req == {f \in DOMAIN sample_data : sample_data[f].required}
        opt == {f \in DOMAIN sample_data : ~sample_data[f].required}
    IN  [endpoint_type |-> "users",
         required_fields |-> [f \in req |-> FieldData(sample_data[f])],
         optional_fields |-> [f \in opt |-> FieldData(sample_data[f])]]

\* analyze_endpoint_requirements building a model from whatever the structure
\* analysis returned, without the test of line 233
analyze_endpoint_requirements_NoSuccessTest(doc) ==
    build_requirements(analyze_endpoint_structure(doc).sample_data)

\* None is modelled as PyNone; the handler of lines 280-282 returns None too
analyze_endpoint_requirements(doc) ==
    LET endpoint_analysis == analyze_endpoint_structure(doc)
    IN  IF ~endpoint_analysis.success THEN PyNone
        ELSE build_requirements(endpoint_analysis.sample_data)

----------------------------------------------------------------------------
(* get_default_request_body *)

\* lines 161-172: the value of one required field, Absent when no branch applies
RequiredValue(field, info) ==
    IF info.example # Absent THEN info.example
    ELSE IF info.format = PyStr("email") THEN PyStr("test@example.com")
    ELSE IF NameContains("password", field) THEN PyStr("TestPassword123!")
    ELSE IF info.type = PyStr("string") THEN PyStr("Test" \o field)
    ELSE IF info.type = PyStr("boolean") THEN PyBool(TRUE)
    ELSE IF info.type = PyStr("integer") THEN PyInt(1)
    ELSE Absent

get_default_request_body(reqs) ==
    LET rf == reqs.required_fields
        of == reqs.optional_fields
        rkeys == {f \in DOMAIN rf : RequiredValue(f, rf[f]) # Absent}
        okeys == {f \in DOMAIN of : of[f].default # Absent}
    IN  [f \in rkeys \cup okeys |->
            IF f \in okeys THEN of[f].default ELSE RequiredValue(f, rf[f])]

----------------------------------------------------------------------------
(* Random draws: the j-th draw of a run is a fixed function of the seed *)

Rand(s, j) == (s * 7 + j * 5 + s * j) % 13

\* random.choice on a non-empty list
Choice(list, r) == list[(r % Len(list)) + 1]

\* Faker's providers, each a draw from a pool of values of the right shape
FakerPool(provider) ==
    CASE provider = "email" -> <<"alice@example.org", "bob@example.net">>
      [] provider = "company_email" -> <<"carol@acme.com", "dan@initech.biz">>
      [] provider = "free_email" -> <<"erin@gmail.com", "frank@yahoo.com">>
      [] provider = "user_name" -> <<"gwen", "hal">>
      [] provider = "domain_name" -> <<"site.org", "mail.net">>
      [] provider = "first_name" -> <<"Ivy", "Jack">>
      [] provider = "last_name" -> <<"King", "Lopez">>
      [] provider = "name" -> <<"Mia Novak", "Omar Park">>
      [] provider = "password" -> <<"aB3$efgh1JkL", "Zx9!qwerTy0p">>
      [] provider = "phone_number" -> <<"555-0100", "(555) 0199">>
      [] provider = "msisdn" -> <<"4915112345678", "3361234567890">>

Faker(provider, r) == Choice(FakerPool(provider), r)

\* random.randint(1, 100)
RandInt(r) == 1 + (r % 100)

----------------------------------------------------------------------------
(* generate_field_variations; field_info is Absent for the empty dict {}   *)
(* of a field that is in neither bucket; s, j: the seed and the first draw *)

generate_field_variations(field_name, field_info, s, j) ==
    IF field_info = Absent THEN <<>>
    ELSE IF field_info.type = PyStr("string") THEN
        IF NameContains("email", field_name) THEN
            <<PyStr(Faker("email", Rand(s, j))),
              PyStr(Faker("company_email", Rand(s, j + 1))),
              PyStr(Faker("free_email", Rand(s, j + 2))),
              PyStr(Faker("user_name", Rand(s, j + 3)) \o "@"
                    \o Faker("domain_name", Rand(s, j + 4))),
              PyStr("invalid.email"), PyStr("test@.com"),
              PyStr("@domain.com"), PyStr(" @domain.com")>>
        ELSE IF NameContains("name", field_name) THEN
            <<PyStr(Faker("first_name", Rand(s, j))),
              PyStr(Faker("last_name", Rand(s, j + 1))),
              PyStr(Faker("name", Rand(s, j + 2))),
              PyStr("A"),
              PyStr("xxxxxxxxxxxxxxxxxxxxxxxxxxxxxxxxxxxxxxxxxxxxxxxxxx"),
              PyStr("123"), PyStr("$pecial Ch@racters"), PyStr("")>>
        ELSE IF NameContains("password", field_name) THEN
            <<PyStr(Faker("password", Rand(s, j))),
              PyStr("P@ssw0rd123!"), PyStr("Str0ng!P@ss"),
              PyStr("weak"), PyStr("12345678"), PyStr("password"), PyStr("")>>
        ELSE IF NameContains("phone", field_name) THEN
            <<PyStr(Faker("phone_number", Rand(s, j))),
              PyStr(Faker("msisdn", Rand(s, j + 1))),
              PyStr("+1234567890"),
              PyStr("123"), PyStr("abcdefghij"), PyStr("")>>
        ELSE <<>>
    ELSE IF field_info.type = PyStr("integer") THEN
        <<PyInt(RandInt(Rand(s, j))), PyInt(0), PyInt(-1), PyInt(999999),
          PyStr("not_a_number"), PyStr("")>>
    ELSE IF field_info.type = PyStr("boolean") THEN
        <<PyBool(TRUE), PyBool(FALSE), PyNone, PyStr("true"), PyStr("false"),
          PyInt(0), PyInt(1)>>
    ELSE <<>>

\* how many draws the call above consumes
DrawsOf(field_name, field_info) ==
    IF field_info = Absent THEN 0
    ELSE IF field_info.type = PyStr("string") THEN
        IF NameContains("email", field_name) THEN 5
        ELSE IF NameContains("name", field_name) THEN 3
        ELSE IF NameContains("password", field_name) THEN 1
        ELSE IF NameContains("phone", field_name) THEN 2
        ELSE 0
    ELSE IF field_info.type = PyStr("integer") THEN 1
    ELSE 0

\* lines 503-507
FieldInfoOf(reqs, field) ==
    IF field \in DOMAIN reqs.required_fields THEN reqs.required_fields[field]
    ELSE IF field \in DOMAIN reqs.optional_fields THEN reqs.optional_fields[field]
    ELSE Absent

RECURSIVE DrawsBefore(_, _, _)
DrawsBefore(reqs, fields, i) ==
    IF i <= 1 THEN 0
    ELSE DrawsBefore(reqs, fields, i - 1)
         + DrawsOf(fields[i - 1], FieldInfoOf(reqs, fields[i - 1]))

SeqToSet(s) == {s[i] : i \in 1..Len(s)}

FirstIndex(s, x) == CHOOSE i \in 1..Len(s) : s[i] = x /\ \A k \in 1..(i - 1) : s[k] # x

\* lines 501-509
build_field_variations(reqs, fields, s) ==
    [f \in SeqToSet(fields) |->
        generate_field_variations(f, FieldInfoOf(reqs, f), s,
                                  DrawsBefore(reqs, fields, FirstIndex(fields, f)))]

----------------------------------------------------------------------------
(* generate_combination_test_cases *)

\* str(value)
PyToStr(value) ==
    CASE value.t = "str" -> value.v
      [] value.t = "int" -> ToString(value.v)
      [] value.t = "bool" -> (IF value.v THEN "True" ELSE "False")
      [] OTHER -> "None"

\* d[k] = v on a copy of d
DictSet(d, k, v) == [x \in DOMAIN d \cup {k} |-> IF x = k THEN v ELSE d[x]]

\* Python truthiness of a value
Truthy(value) ==
    CASE value.t = "str" -> value.v # ""
      [] value.t = "int" -> value.v # 0
      [] value.t = "bool" -> value.v
      [] OTHER -> FALSE

\* SingleFieldCase with the field's override left out
SingleFieldCase_NoOverride(field, value, body) ==
    [name |-> PyStr("Test " \o field \o " with value: " \o PyToStr(value)),
     method |-> PyStr("POST"),
     data |-> PyDict(body),
     expected_status_code |->
        IF ~PyEq(value, PyStr("")) THEN PyInt(200) ELSE PyInt(400),
     expected_behavior |-> PyStr("Testing " \o field \o " with specific value")]

\* SingleFieldCase with `200 if value else 400`
SingleFieldCase_Truthiness(field, value, body) ==
    [name |-> PyStr("Test " \o field \o " with value: " \o PyToStr(value)),
     method |-> PyStr("POST"),
     data |-> PyDict(DictSet(body, field, value)),
     expected_status_code |-> IF Truthy(value) THEN PyInt(200) ELSE PyInt(400),
     expected_behavior |-> PyStr("Testing " \o field \o " with specific value")]

\* lines 432-439
SingleFieldCase(field, value, body) ==
    [name |-> PyStr("Test " \o field \o " with value: " \o PyToStr(value)),
     method |-> PyStr("POST"),
     data |-> PyDict(DictSet(body, field, value)),
     expected_status_code |->
        IF ~PyEq(value, PyStr("")) THEN PyInt(200) ELSE PyInt(400),
     expected_behavior |-> PyStr("Testing " \o field \o " with specific value")]

RECURSIVE SingleFieldPass(_, _, _)
SingleFieldPass(fields, fv, body) ==
    IF fields = <<>> THEN <<>>
    ELSE [i \in 1..Len(fv[Head(fields)]) |->
             SingleFieldCase(Head(fields), fv[Head(fields)][i], body)]
         \o SingleFieldPass(Tail(fields), fv, body)

\* itertools.combinations(s, r), in its order
RECURSIVE combinations(_, _)
combinations(s, r) ==
    IF r = 0 THEN << <<>> >>
    ELSE IF Len(s) < r THEN <<>>
    ELSE LET with == combinations(Tail(s), r - 1)
         IN  [i \in 1..Len(with) |-> <<Head(s)>> \o with[i]]
             \o combinations(Tail(s), r)

Min(a, b) == IF a <= b THEN a ELSE b

\* range(2, min(4, len(selected_fields) + 1))
ComboSizes(fields) == [i \in 1..(Min(4, Len(fields) + 1) - 2) |-> i + 1]

RECURSIVE CombosOfSizes(_, _)
CombosOfSizes(fields, sizes) ==
    IF sizes = <<>> THEN <<>>
    ELSE combinations(fields, Head(sizes)) \o CombosOfSizes(fields, Tail(sizes))

AllCombos(fields) == CombosOfSizes(fields, ComboSizes(fields))

RECURSIVE JoinNames(_)
JoinNames(combo) ==
    IF combo = <<>> THEN ""
    ELSE IF Len(combo) = 1 THEN Head(combo)
    ELSE Head(combo) \o ", " \o JoinNames(Tail(combo))

\* lines 455-456: one random.choice per field of the combination
RECURSIVE ChooseValues(_, _, _, _, _)
ChooseValues(data, combo, fv, s, j) ==
    IF combo = <<>> THEN data
    ELSE ChooseValues(DictSet(data, Head(combo), Choice(fv[Head(combo)], Rand(s, j))),
                      Tail(combo), fv, s, j + 1)

\* lines 447-456
CombinationCase(combo, fv, body, s, j) ==
    [name |-> PyStr("Test combination of " \o JoinNames(combo)),
     method |-> PyStr("POST"),
     data |-> PyDict(ChooseValues(body, combo, fv, s, j)),
     expected_status_code |-> PyInt(200),
     expected_behavior |-> PyStr("Testing multiple field combinations")]

\* range(3)
CasesPerCombo == 3

RECURSIVE CombinationPass(_, _, _, _, _)
CombinationPass(combos, fv, body, s, j) ==
    IF combos = <<>> THEN <<>>
    ELSE [i \in 1..CasesPerCombo |->
             CombinationCase(Head(combos), fv, body, s,
                             j + (i - 1) * Len(Head(combos)))]
         \o CombinationPass(Tail(combos), fv, body, s,
                            j + CasesPerCombo * Len(Head(combos)))

\* random.choice raises IndexError on an empty list
CombinationRaises(combos, fv) ==
    \E i \in 1..Len(combos) : \E p \in 1..Len(combos[i]) : fv[combos[i][p]] = <<>>

generate_combination_test_cases(fields, fv, body, s, j) ==
    LET combos == AllCombos(fields)
        raised == CombinationRaises(combos, fv)
    IN  [single |-> SingleFieldPass(fields, fv, body),
         raised |-> raised,
         combos |-> IF raised THEN <<>>
                    ELSE CombinationPass(combos, fv, body, s, j)]

----------------------------------------------------------------------------
(* generate_test_cases: the merge with the oracle's scenarios *)

\* a dictionary shaped like a test case, as opposed to any other JSON value
IsCase(x) == "data" \in DOMAIN x

\* NormalizeCase with complete_body starting empty, not as a copy of the default body
NormalizeCase_NoDefaults(case, fields, body) ==
    IF ~IsCase(case) THEN [raised |-> TRUE, case |-> case]
    ELSE IF case.data = Absent
         THEN [raised |-> FALSE, case |-> [case EXCEPT !.data = PyDict(EmptyDict)]]
    ELSE IF case.data.t # "dict"
         THEN [raised |-> fields # <<>>, case |-> [case EXCEPT !.data = PyDict(EmptyDict)]]
    ELSE LET declared == {f \in SeqToSet(fields) : f \in DOMAIN case.data.v}
         IN  [raised |-> FALSE,
              case |-> [case EXCEPT !.data =
                           PyDict([f \in declared |-> case.data.v[f]])]]

\* lines 536-541 for one case; raised: a TypeError
NormalizeCase(case, fields, body) ==
    IF ~IsCase(case) THEN [raised |-> TRUE, case |-> case]
    ELSE IF case.data = Absent
         THEN [raised |-> FALSE, case |-> [case EXCEPT !.data = PyDict(body)]]
    ELSE IF case.data.t # "dict"
         THEN [raised |-> fields # <<>>, case |-> [case EXCEPT !.data = PyDict(body)]]
    ELSE LET declared == {f \in SeqToSet(fields) : f \in DOMAIN case.data.v}
         IN  [raised |-> FALSE,
              case |-> [case EXCEPT !.data =
                  PyDict([f \in DOMAIN body \cup declared |->
                             IF f \in declared THEN case.data.v[f] ELSE body[f]])]]

\* lines 499-512: the variations and the automated cases
automated_test_cases(reqs, fields, body, s) ==
    LET fv == build_field_variations(reqs, fields, s)
        auto == generate_combination_test_cases(
                    fields, fv, body, s, DrawsBefore(reqs, fields, Len(fields) + 1))
    IN  [field_variations |-> fv, single |-> auto.single,
         raised |-> auto.raised, combos |-> auto.combos]

\* lines 514-547, after the automated cases were built; oracle: what the
\* scenario oracle call produced. The result is None for any exception.
merge_test_cases(auto, fields, body, oracle) ==
    LET parsed == ~auto.raised /\ oracle.kind = "json" /\ oracle.value.t = "list"
        all == IF parsed THEN auto.single \o auto.combos \o oracle.value.v ELSE <<>>
        norm == [i \in 1..Len(all) |-> NormalizeCase(all[i], fields, body)]
    IN  IF parsed /\ \A i \in 1..Len(all) : ~norm[i].raised
        THEN PyList([i \in 1..Len(all) |-> norm[i].case])
        ELSE PyNone

----------------------------------------------------------------------------
(* The documents the schema fetch can produce *)

MaxProps == 2

\* the names SpecBody draws its properties from
BodyNames == {"email", "password", "age"}

PlainProperty(ty, fmt, dflt) ==
    [type |-> PyStr(ty), format |-> fmt, default |-> dflt, anyOf |-> Absent]

\* anyOf: [{type: string, format?}, {type: null}], as for a nullable string
UnionProperty(fmt, dflt) ==
    [type |-> Absent, format |-> Absent, default |-> dflt,
     anyOf |-> PyList(<<[type |-> PyStr("string"), format |-> fmt],
                        [type |-> PyStr("null"), format |-> Absent]>>)]

\* well-formed properties: a declared default has the declared type
Properties ==
    {PlainProperty("string", fmt, dflt) :
        fmt \in {Absent, PyStr("email")}, dflt \in {Absent, PyStr("")}}
    \cup {PlainProperty("integer", Absent, dflt) : dflt \in {Absent, PyInt(0)}}
    \cup {PlainProperty("boolean", Absent, dflt) : dflt \in {Absent, PyBool(FALSE)}}
    \cup {PlainProperty("object", Absent, Absent),
          PlainProperty("array", Absent, Absent)}
    \cup {UnionProperty(fmt, dflt) :
        fmt \in {Absent, PyStr("email")}, dflt \in {Absent, PyNone}}
    \cup {[type |-> Absent, format |-> Absent, default |-> Absent, anyOf |-> Absent]}

OkDoc(props, required) ==
    [fetch |-> "response", status |-> 200, is_json |-> TRUE, has_path |-> TRUE,
     has_post |-> TRUE, has_schema |-> TRUE, has_ref |-> TRUE,
     ref_resolves |-> TRUE, has_properties |-> TRUE,
     properties |-> props, required |-> required]

NoProps == [f \in {} |-> Absent]

FailedDocs ==
    {[OkDoc(NoProps, {}) EXCEPT !.fetch = "exception"],
     [OkDoc(NoProps, {}) EXCEPT !.status = 404],
     [OkDoc(NoProps, {}) EXCEPT !.status = 500],
     [OkDoc(NoProps, {}) EXCEPT !.is_json = FALSE],
     [OkDoc(NoProps, {}) EXCEPT !.has_path = FALSE],
     [OkDoc(NoProps, {}) EXCEPT !.has_post = FALSE],
     [OkDoc(NoProps, {}) EXCEPT !.has_schema = FALSE],
     [OkDoc(NoProps, {}) EXCEPT !.has_ref = FALSE],
     [OkDoc(NoProps, {}) EXCEPT !.ref_resolves = FALSE],
     [OkDoc(NoProps, {}) EXCEPT !.has_properties = FALSE]}

SchemaDocs ==
    {OkDoc(props, required) :
        <<props, required>> \in
            UNION {[F -> Properties] \X SUBSET F :
                      F \in {G \in SUBSET BodyNames : Cardinality(G) <= MaxProps}}}

----------------------------------------------------------------------------
(* SpecBody: schema -> requirements -> default body *)

\* src/streamlit_app.py lines 387-392 and 413-416
InitialSessionState ==
    [requirements |-> PyNone, analysis_complete |-> FALSE,
     selected_fields |-> <<>>, validation_rules |-> PyNone,
     test_results |-> PyNone]

\* the functions are called on their own, outside run_complete_test_suite
NotInSuite ==
    /\ rules_response = [kind |-> "not called", value |-> PyNone]
    /\ validation_rules = PyNone
    /\ calls = <<>>
    /\ final_result = PyNone

Idle ==
    /\ selected_fields = <<>>
    /\ seed = 0
    /\ field_variations = EmptyDict
    /\ single_cases = <<>>
    /\ combo_cases = PyNone
    /\ gpt_response = [kind |-> "not called", value |-> PyNone]
    /\ all_test_cases = PyNone
    /\ test_cases = <<>>
    /\ idx = 0
    /\ requests_log = <<>>
    /\ results = <<>>
    /\ report = PyNone
    /\ NotInSuite
    /\ session_state = InitialSessionState

InitBody ==
    /\ pc = "start"
    /\ openapi \in SchemaDocs \cup FailedDocs
    /\ requirements = PyNone
    /\ default_body = EmptyDict
    /\ Idle

\* run_complete_test_suite, lines 650-652
AnalyzeRequirements ==
    /\ pc = "start"
    /\ requirements' = analyze_endpoint_requirements(openapi)
    /\ pc' = IF requirements' = PyNone THEN "halted" ELSE "analyzed"
    /\ UNCHANGED <<openapi, default_body>>
    /\ UNCHANGED genVars
    /\ UNCHANGED execVars
    /\ UNCHANGED suiteVars
    /\ UNCHANGED session_state

\* run_complete_test_suite, line 661
GetDefaultRequestBody ==
    /\ pc = "analyzed"
    /\ default_body' = get_default_request_body(requirements)
    /\ pc' = "body"
    /\ UNCHANGED <<openapi, requirements>>
    /\ UNCHANGED genVars
    /\ UNCHANGED execVars
    /\ UNCHANGED suiteVars
    /\ UNCHANGED session_state

NextBody == AnalyzeRequirements \/ GetDefaultRequestBody

SpecBody == InitBody /\ [][NextBody]_vars

----------------------------------------------------------------------------
(* SpecGen: generate_test_cases on the requirements of a signup-like schema *)

MaxGenFields == 3

Seeds == {0, 1}

\* the two declarations of each field the documents of SpecGen choose from:
\* <<property, listed in required>>
GenProfiles(field) ==
    CASE field = "email" ->
            {<<PlainProperty("string", PyStr("email"), Absent), TRUE>>,
             <<PlainProperty("string", Absent, PyStr("")), FALSE>>}
      [] field = "password" ->
            {<<PlainProperty("string", Absent, Absent), TRUE>>,
             <<PlainProperty("string", Absent, Absent), FALSE>>}
      [] field = "name" ->
            {<<PlainProperty("string", Absent, Absent), TRUE>>,
             <<PlainProperty("string", Absent, PyStr("")), FALSE>>}
      [] field = "phone" ->
            {<<PlainProperty("string", Absent, Absent), TRUE>>,
             <<UnionProperty(Absent, PyNone), FALSE>>}
      [] field = "age" ->
            {<<PlainProperty("integer", Absent, Absent), TRUE>>,
             <<PlainProperty("object", Absent, Absent), TRUE>>}
      [] field = "active" ->
            {<<PlainProperty("boolean", Absent, Absent), TRUE>>,
             <<PlainProperty("boolean", Absent, PyBool(FALSE)), FALSE>>}

GenDocs ==
    UNION {{OkDoc([f \in F |-> prof[f][1]], {f \in F : prof[f][2]}) :
               prof \in {g \in [F -> UNION {GenProfiles(f) : f \in F}] :
                            \A f \in F : g[f] \in GenProfiles(f)}} :
           F \in {G \in SUBSET FieldNames :
                     Cardinality(G) >= 1 /\ Cardinality(G) <= MaxGenFields}}

\* the data of the oracle's scenarios
ScenarioData ==
    {PyDict(EmptyDict),
     PyDict([f \in {"email"} |-> PyStr("oracle@corp.io")]),
     PyDict([f \in {"name", "age"} |->
                IF f = "name" THEN PyStr("Zed") ELSE PyInt(-5)]),
     PyNone, Absent}

Scenario(data) ==
    [name |-> PyStr("Oracle scenario"), method |-> PyStr("POST"), data |-> data,
     expected_status_code |-> PyInt(400),
     expected_behavior |-> PyStr("Rejected")]

\* what the scenario oracle call can produce: an exception, text that is not
\* JSON, or a JSON value: an object, or a list of scenarios and other values
OracleOutputs ==
    {[kind |-> "exception", value |-> PyNone],
     [kind |-> "text", value |-> PyNone],
     [kind |-> "json", value |-> PyDict(EmptyDict)],
     [kind |-> "json", value |-> PyList(<<>>)],
     [kind |-> "json", value |-> PyList(<<PyStr("no scenarios")>>)],
     [kind |-> "json", value |->
         PyList(<<Scenario(PyDict([f \in {"email"} |-> PyStr("oracle@corp.io")])),
                  Scenario(Absent)>>)]}
    \cup {[kind |-> "json", value |-> PyList(<<Scenario(d)>>)] : d \in ScenarioData}

NotCalled == [kind |-> "not called", value |-> PyNone]

InitGen ==
    /\ pc = "selected"
    /\ openapi \in GenDocs
    /\ requirements = analyze_endpoint_requirements(openapi)
    /\ default_body = get_default_request_body(requirements)
    /\ selected_fields \in
          {KeysInOrder(S) : S \in (SUBSET DOMAIN openapi.properties) \ {{}}}
    /\ seed \in Seeds
    /\ field_variations = EmptyDict
    /\ single_cases = <<>>
    /\ combo_cases = PyNone
    /\ gpt_response = NotCalled
    /\ all_test_cases = PyNone
    /\ test_cases = <<>>
    /\ idx = 0
    /\ requests_log = <<>>
    /\ results = <<>>
    /\ report = PyNone
    /\ NotInSuite
    /\ session_state = InitialSessionState

\* generate_test_cases, called at run_complete_test_suite line 674
GenerateTestCases ==
    /\ pc = "selected"
    /\ LET auto == automated_test_cases(requirements, selected_fields,
                                        default_body, seed)
       IN  /\ field_variations' = auto.field_variations
           /\ single_cases' = auto.single
           /\ combo_cases' = IF auto.raised THEN PyNone ELSE PyList(auto.combos)
           /\ \E oracle \in OracleOutputs :
                 /\ gpt_response' = IF auto.raised THEN NotCalled ELSE oracle
                 /\ all_test_cases' =
                       merge_test_cases(auto, selected_fields, default_body, oracle)
    /\ pc' = "generated"
    /\ UNCHANGED <<selected_fields, seed>>
    /\ UNCHANGED bodyVars
    /\ UNCHANGED execVars
    /\ UNCHANGED suiteVars
    /\ UNCHANGED session_state

NextGen == GenerateTestCases

SpecGen == InitGen /\ [][NextGen]_vars

----------------------------------------------------------------------------
(* execute_test_cases *)

Endpoint == "https://api.example/api/signup"

\* str.lower() on the method names the model uses
Lower(m) ==
    CASE m = "POST" -> "post"
      [] m = "GET" -> "get"
      [] m = "PUT" -> "put"
      [] m = "DELETE" -> "delete"
      [] m = "PATCH" -> "patch"
      [] m = "Delete" -> "delete"
      [] OTHER -> m

Request(verb, url, params, json) ==
    [verb |-> verb, url |-> url, params |-> params, json |-> json]

\* f"{endpoint}/{data['id']}"
SpecificEndpoint(data) == Endpoint \o "/" \o PyToStr(data.v["id"])

\* unsupported_method sending the case as a POST instead of raising
unsupported_method_SentAsPost(method, data) ==
    [raised |-> FALSE, error |-> "",
     request |-> Request("POST", Endpoint, Absent, data)]

\* lines 581-582: raise ValueError(f"Unsupported method: {method}")
unsupported_method(method, data) ==
    [raised |-> TRUE, error |-> "Unsupported method: " \o method,
     request |-> Absent]

\* lines 557-582: the request of a case, or the exception raised before any
\* request is made
dispatch(case) ==
    IF case.method = Absent
    THEN [raised |-> TRUE, error |-> "'method'", request |-> Absent]
    ELSE IF case.method.t # "str"
    THEN [raised |-> TRUE, error |-> "object has no attribute 'lower'",
          request |-> Absent]
    ELSE IF case.data = Absent
    THEN [raised |-> TRUE, error |-> "'data'", request |-> Absent]
    ELSE LET method == Lower(case.method.v)
             data == case.data
             has_id == data.t = "dict" /\ "id" \in DOMAIN data.v
         IN  IF method = "get"
             THEN [raised |-> FALSE, error |-> "",
                   request |-> IF has_id
                               THEN Request("GET", SpecificEndpoint(data), Absent, Absent)
                               ELSE Request("GET", Endpoint, data, Absent)]
             ELSE IF method = "post"
             THEN [raised |-> FALSE, error |-> "",
                   request |-> Request("POST", Endpoint, Absent, data)]
             ELSE IF method = "put"
             THEN [raised |-> FALSE, error |-> "",
                   request |-> IF has_id
                               THEN Request("PUT", SpecificEndpoint(data), Absent, data)
                               ELSE Request("PUT", Endpoint, Absent, data)]
             ELSE IF method = "delete"
             THEN [raised |-> FALSE, error |-> "",
                   request |-> IF has_id
                               THEN Request("DELETE", SpecificEndpoint(data), Absent, Absent)
                               ELSE Request("DELETE", Endpoint, Absent, Absent)]
             ELSE unsupported_method(method, data)

\* Executed writing the status received over expected_status_code as well
Executed_OverwritesExpected(case, actual_status_code, actual_response, test_result) ==
    [name |-> case.name, method |-> case.method, data |-> case.data,
     expected_status_code |-> actual_status_code,
     expected_behavior |-> case.expected_behavior,
     actual_status_code |-> actual_status_code,
     actual_response |-> actual_response,
     test_result |-> test_result]

\* the case after lines 585-597 or 602-608: three keys are assigned, the
\* others are left as they were
Executed(case, actual_status_code, actual_response, test_result) ==
    [name |-> case.name, method |-> case.method, data |-> case.data,
     expected_status_code |-> case.expected_status_code,
     expected_behavior |-> case.expected_behavior,
     actual_status_code |-> actual_status_code,
     actual_response |-> actual_response,
     test_result |-> test_result]

\* lines 601-608 (the timestamp is left out)
ErrorResult(case, error) ==
    Executed(case, PyStr("Error"), PyStr(error),
             [passed |-> PyBool(FALSE), status_code_match |-> Absent,
              notes |-> Absent, error |-> PyStr(error)])

\* ResponseResult scoring every answered case as passed
ResponseResult_AlwaysPassed(case, response) ==
    IF case.expected_status_code = Absent
    THEN ErrorResult(case, "'expected_status_code'")
    ELSE Executed(case, PyInt(response.status_code), response.body,
                  [passed |-> PyBool(TRUE), status_code_match |-> PyBool(TRUE),
                   notes |-> PyStr("Expected " \o PyToStr(case.expected_status_code)
                                   \o ", got " \o ToString(response.status_code)),
                   error |-> Absent])

\* lines 584-597; a case without expected_status_code raises KeyError at
\* line 593 and is recorded by the handler of lines 601-608
ResponseResult(case, response) ==
    IF case.expected_status_code = Absent
    THEN ErrorResult(case, "'expected_status_code'")
    ELSE LET match == PyEq(case.expected_status_code, PyInt(response.status_code))
         IN  Executed(case, PyInt(response.status_code), response.body,
                      [passed |-> PyBool(match), status_code_match |-> PyBool(match),
                       notes |-> PyStr("Expected " \o PyToStr(case.expected_status_code)
                                       \o ", got " \o ToString(response.status_code)),
                       error |-> Absent])

\* what a request can come back with: a response, or a transport exception
Responses ==
    {[status_code |-> 200, body |-> PyDict(EmptyDict)],
     [status_code |-> 400, body |-> PyStr("Bad Request")]}

TransportError == "Connection refused"

\* results.append(case) of lines 599 and 609, left out for the failed cases
record_result_OnlyResponses(res, case) ==
    IF case.actual_status_code = PyStr("Error") THEN res ELSE Append(res, case)

\* results.append(case), lines 599 and 609
record_result(res, case) == Append(res, case)

\* the loop stopping at the first failed case
after_case_StopOnError(i, n, case) ==
    IF case.actual_status_code = PyStr("Error") THEN n ELSE i + 1

\* line 555: the loop goes on to the next case whatever happened to this one;
\* i: the cases handled before, n: len(test_cases)
after_case(i, n, case) == i + 1

----------------------------------------------------------------------------
(* generate_test_report *)

DigitChar(d) == <<"0", "1", "2", "3", "4", "5", "6", "7", "8", "9">>[d + 1]

\* the decimal digits of a natural number, as a sequence of characters
RECURSIVE IntChars(_)
IntChars(n) == IF n < 10 THEN <<DigitChar(n)>>
               ELSE IntChars(n \div 10) \o <<DigitChar(n % 10)>>

\* RoundHalfEven cutting the digits off instead of rounding
RoundHalfEven_Truncate(num, den) == num \div den

\* num/den rounded to the nearest integer, ties to even, as Python's format does
RoundHalfEven(num, den) ==
    LET q == num \div den
        r == num % den
    IN  IF 2 * r > den \/ (2 * r = den /\ q % 2 = 1) THEN q + 1 ELSE q

\* f"{(passed_tests/total_tests)*100:.2f}%", a string as its characters; the
\* quotient is taken exactly, which agrees with the float for the totals modelled
FormatPercent(passed_tests, total_tests) ==
    LET h == RoundHalfEven(passed_tests * 10000, total_tests)
    IN  IntChars(h \div 100)
        \o <<".", DigitChar((h % 100) \div 10), DigitChar(h % 10), "%">>

\* test.get("test_result", {}).get("passed", False)
Passed(test) ==
    IF test.test_result = Absent THEN FALSE
    ELSE IF test.test_result.passed = Absent THEN FALSE
    ELSE Truthy(test.test_result.passed)

RECURSIVE SelectFailed(_)
SelectFailed(res) ==
    IF res = <<>> THEN <<>>
    ELSE (IF Passed(Head(res)) THEN <<>> ELSE <<Head(res)>>) \o SelectFailed(Tail(res))

\* lines 631-636
FailedSummary(test) ==
    [name |-> test.name,
     expected_status |-> test.expected_status_code,
     actual_status |-> test.actual_status_code,
     error |-> IF test.test_result = Absent \/ test.test_result.error = Absent
               THEN PyStr("No error message") ELSE test.test_result.error]

\* lines 617-640 (the timestamp is left out); raised: the KeyError of
\* test["name"], test["expected_status_code"] or test["actual_status_code"]
generate_test_report(res) ==
    LET total_tests == Len(res)
        failed == SelectFailed(res)
        passed_tests == total_tests - Len(failed)
    IN  IF \E i \in 1..Len(failed) :
              \/ failed[i].name = Absent
              \/ failed[i].expected_status_code = Absent
              \/ failed[i].actual_status_code = Absent
        THEN [raised |-> TRUE]
        ELSE [raised |-> FALSE,
              summary |->
                 [total_tests |-> total_tests,
                  passed_tests |-> passed_tests,
                  failed_tests |-> total_tests - passed_tests,
                  success_rate |-> IF total_tests > 0
                                   THEN FormatPercent(passed_tests, total_tests)
                                   ELSE <<"0", "%">>],
              test_results |-> res,
              failed_tests_summary |->
                 [i \in 1..Len(failed) |-> FailedSummary(failed[i])]]

----------------------------------------------------------------------------
(* SpecExec: execute_test_cases on a list of test cases, then the report *)

MaxCases == 4

\* the cases the lists of SpecExec are made of: two as the single-field pass
\* builds them, and a scenario of the oracle, whose fields are not validated
CaseKinds ==
    {[name |-> PyStr("Test email with value: bob@example.net"),
      method |-> PyStr("POST"),
      data |-> PyDict([f \in {"email"} |-> PyStr("bob@example.net")]),
      expected_status_code |-> PyInt(200),
      expected_behavior |-> PyStr("Testing email with specific value")],
     [name |-> PyStr("Test name with value: "),
      method |-> PyStr("POST"),
      data |-> PyDict([f \in {"name"} |-> PyStr("")]),
      expected_status_code |-> PyInt(400),
      expected_behavior |-> PyStr("Testing name with specific value")],
     [name |-> PyStr("Service unreachable"),
      method |-> PyStr("GET"),
      data |-> PyDict([f \in {"email"} |-> PyStr("oracle@corp.io")]),
      expected_status_code |-> PyStr("Error"),
      expected_behavior |-> PyStr("The request fails")]}

CaseLists == UNION {[1..n -> CaseKinds] : n \in 0..MaxCases}

InitExec ==
    /\ pc = "executing"
    /\ openapi = OkDoc(NoProps, {})
    /\ requirements = PyNone
    /\ default_body = EmptyDict
    /\ selected_fields = <<>>
    /\ seed = 0
    /\ field_variations = EmptyDict
    /\ single_cases = <<>>
    /\ combo_cases = PyNone
    /\ gpt_response = NotCalled
    /\ test_cases \in CaseLists
    /\ all_test_cases = PyList(test_cases)
    /\ idx = 0
    /\ requests_log = <<>>
    /\ results = <<>>
    /\ report = PyNone
    /\ NotInSuite
    /\ session_state = InitialSessionState

\* the case being handled
CurrentCase == test_cases[idx + 1]

Record(case) ==
    /\ test_cases' = [test_cases EXCEPT ![idx + 1] = case]
    /\ results' = record_result(results, case)
    /\ idx' = after_case(idx, Len(test_cases), case)

\* one iteration of line 555 up to the request: the request is sent, or the
\* exception raised before it is recorded
Dispatch ==
    /\ pc = "executing"
    /\ idx < Len(test_cases)
    /\ LET d == dispatch(CurrentCase)
       IN  IF d.raised
           THEN /\ Record(ErrorResult(CurrentCase, d.error))
                /\ UNCHANGED <<pc, requests_log>>
           ELSE /\ requests_log' =
                      Append(requests_log,
                             [case |-> idx + 1, request |-> d.request,
                              outcome |-> Absent])
                /\ pc' = "awaiting"
                /\ UNCHANGED <<test_cases, results, idx>>
    /\ UNCHANGED <<report, all_test_cases>>
    /\ UNCHANGED bodyVars
    /\ UNCHANGED <<selected_fields, seed, field_variations, single_cases,
                   combo_cases, gpt_response>>
    /\ UNCHANGED suiteVars
    /\ UNCHANGED session_state

\* the request returns a response: lines 584-599
Respond ==
    /\ pc = "awaiting"
    /\ \E response \in Responses :
          /\ requests_log' = [requests_log EXCEPT
                                 ![Len(requests_log)].outcome = PyInt(response.status_code)]
          /\ Record(ResponseResult(CurrentCase, response))
    /\ pc' = "executing"
    /\ UNCHANGED <<report, all_test_cases>>
    /\ UNCHANGED bodyVars
    /\ UNCHANGED <<selected_fields, seed, field_variations, single_cases,
                   combo_cases, gpt_response>>
    /\ UNCHANGED suiteVars
    /\ UNCHANGED session_state

\* the request raises: lines 601-609
RequestFails ==
    /\ pc = "awaiting"
    /\ requests_log' = [requests_log EXCEPT
                           ![Len(requests_log)].outcome = PyStr(TransportError)]
    /\ Record(ErrorResult(CurrentCase, TransportError))
    /\ pc' = "executing"
    /\ UNCHANGED <<report, all_test_cases>>
    /\ UNCHANGED bodyVars
    /\ UNCHANGED <<selected_fields, seed, field_variations, single_cases,
                   combo_cases, gpt_response>>
    /\ UNCHANGED suiteVars
    /\ UNCHANGED session_state

\* execute_test_cases returns (line 611) and generate_test_report is called
GenerateTestReport ==
    /\ pc = "executing"
    /\ idx >= Len(test_cases)
    /\ report' = generate_test_report(results)
    /\ pc' = "reported"
    /\ UNCHANGED <<test_cases, idx, requests_log, results, all_test_cases>>
    /\ UNCHANGED bodyVars
    /\ UNCHANGED <<selected_fields, seed, field_variations, single_cases,
                   combo_cases, gpt_response>>
    /\ UNCHANGED suiteVars
    /\ UNCHANGED session_state

NextExec == Dispatch \/ Respond \/ RequestFails \/ GenerateTestReport

SpecExec == InitExec /\ [][NextExec]_vars

----------------------------------------------------------------------------
(* SpecDispatch: execute_test_cases on cases of every method, as the       *)
(* scenario oracle can supply them, then the report                        *)

MaxDispatchCases == 2

WithId == PyDict([f \in {"id", "email"} |->
                     IF f = "id" THEN PyInt(7) ELSE PyStr("oracle@corp.io")])
WithoutId == PyDict([f \in {"email"} |-> PyStr("oracle@corp.io")])

MethodCase(method, data) ==
    [name |-> PyStr("Scenario " \o method),
     method |-> PyStr(method),
     data |-> data,
     expected_status_code |-> PyInt(200),
     expected_behavior |-> PyStr("Accepted")]

\* scenarios of the four supported methods and of an unsupported one, with
\* and without an id in the payload, and a scenario that carries no name
DispatchKinds ==
    {MethodCase(m, d) : m \in {"GET", "post", "PUT", "Delete"},
                        d \in {WithId, WithoutId}}
    \cup {MethodCase("PATCH", WithId),
          [MethodCase("post", WithoutId) EXCEPT !.name = Absent]}

DispatchLists == UNION {[1..n -> DispatchKinds] : n \in 0..MaxDispatchCases}

InitDispatch ==
    /\ pc = "executing"
    /\ openapi = OkDoc(NoProps, {})
    /\ requirements = PyNone
    /\ default_body = EmptyDict
    /\ selected_fields = <<>>
    /\ seed = 0
    /\ field_variations = EmptyDict
    /\ single_cases = <<>>
    /\ combo_cases = PyNone
    /\ gpt_response = NotCalled
    /\ test_cases \in DispatchLists
    /\ all_test_cases = PyList(test_cases)
    /\ idx = 0
    /\ requests_log = <<>>
    /\ results = <<>>
    /\ report = PyNone
    /\ NotInSuite
    /\ session_state = InitialSessionState

SpecDispatch == InitDispatch /\ [][NextExec]_vars

----------------------------------------------------------------------------
(* select_fields_for_testing and generate_validation_rules *)

\* lines 188-194: required fields first, then optional ones
AllFieldsInOrder(reqs) ==
    KeysInOrder(DOMAIN reqs.required_fields)
    \o KeysInOrder(DOMAIN reqs.optional_fields \ DOMAIN reqs.required_fields)

\* lines 215-217: the fields at the indices that are in range, in the order typed
RECURSIVE FieldsAt(_, _)
FieldsAt(field_names, indices) ==
    IF indices = <<>> THEN <<>>
    ELSE (IF 0 < Head(indices) /\ Head(indices) <= Len(field_names)
          THEN <<field_names[Head(indices)]>> ELSE <<>>)
         \o FieldsAt(field_names, Tail(indices))

\* what the user can type at the prompt of line 207
Selections ==
    {[kind |-> "q", indices |-> <<>>], [kind |-> "all", indices |-> <<>>]}
    \cup {[kind |-> "indices", indices |-> s] : s \in {<<1>>, <<2, 1>>, <<3>>}}

\* one round of the loop of lines 205-222: None for 'q', a list of names, or
\* "again" when the prompt is repeated
select_fields_for_testing(reqs, selection) ==
    IF selection.kind = "q" THEN PyNone
    ELSE IF selection.kind = "all" THEN PyList(AllFieldsInOrder(reqs))
    ELSE LET selected == FieldsAt(AllFieldsInOrder(reqs), selection.indices)
         IN  IF selected # <<>> THEN PyList(selected) ELSE PyStr("again")

\* what the validation-rule oracle call can produce
RulesOutputs ==
    {[kind |-> "exception", value |-> PyNone],
     [kind |-> "text", value |-> PyNone],
     [kind |-> "json", value |-> PyDict(EmptyDict)],
     [kind |-> "json", value |->
         PyDict([k \in {"field_validations", "object_validations"} |->
                    PyDict(EmptyDict)])]}

\* lines 339-349: the call of line 340 is outside the try block, so its
\* exception leaves the function; the JSONDecodeError of line 345 gives None (lines 347-349)
generate_validation_rules(output) ==
    IF output.kind = "exception" THEN [raised |-> TRUE, value |-> PyNone]
    ELSE IF output.kind = "text" THEN [raised |-> FALSE, value |-> PyNone]
    ELSE [raised |-> FALSE, value |-> output.value]

\* Python's "not x" for the values the suite tests
Falsy(x) ==
    \/ x = PyNone
    \/ x.t \in {"list", "str"} /\ Len(x.v) = 0
    \/ x.t = "dict" /\ DOMAIN x.v = {}

----------------------------------------------------------------------------
(* SpecSuite: run_complete_test_suite *)

\* step_result never returning early
step_result_NeverReturns(falsy, message, next) ==
    [pc |-> next, final_result |-> PyNone]

\* "if not x: return message" of lines 651, 657, 668 and 675
step_result(falsy, message, next) ==
    IF falsy THEN [pc |-> "returned", final_result |-> PyStr(message)]
    ELSE [pc |-> next, final_result |-> PyNone]

\* documents of the suite: the failures, and two schemas whose fields have no
\* variations, so that the cases executed are the oracle's scenarios
SuiteDocs ==
    FailedDocs
    \cup {OkDoc([f \in {"age"} |-> PlainProperty("object", Absent, Absent)], {"age"}),
          OkDoc([f \in {"age", "phone"} |->
                    IF f = "age" THEN PlainProperty("object", Absent, Absent)
                    ELSE UnionProperty(Absent, PyNone)], {"age"})}

\* the oracle's answers in the suite: those of SpecGen, and a list whose
\* scenario has no name, which json.loads accepts like any other object
SuiteOracleOutputs ==
    OracleOutputs
    \cup {[kind |-> "json", value |->
              PyList(<<[Scenario(PyDict(EmptyDict)) EXCEPT !.name = Absent]>>)]}

InitSuite ==
    /\ pc = "suite"
    /\ openapi \in SuiteDocs
    /\ requirements = PyNone
    /\ default_body = EmptyDict
    /\ Idle

\* lines 650-652
RunAnalyze ==
    /\ pc = "suite"
    /\ requirements' = analyze_endpoint_requirements(openapi)
    /\ calls' = Append(calls, "analyze_endpoint_requirements")
    /\ LET step == step_result(requirements' = PyNone,
                               "Failed to analyze endpoint requirements", "select")
       IN  pc' = step.pc /\ final_result' = step.final_result
    /\ UNCHANGED <<openapi, default_body, rules_response, validation_rules>>
    /\ UNCHANGED genVars
    /\ UNCHANGED execVars
    /\ UNCHANGED session_state

\* lines 656-658; the prompt is repeated until an input is accepted
RunSelectFields ==
    /\ pc = "select"
    /\ \E selection \in Selections :
          LET selected == select_fields_for_testing(requirements, selection)
              step == step_result(Falsy(selected), "No fields selected for testing",
                                  "default_body")
          IN  /\ selected # PyStr("again")
              /\ selected_fields' = IF selected = PyNone THEN <<>> ELSE selected.v
              /\ pc' = step.pc /\ final_result' = step.final_result
    /\ calls' = Append(calls, "select_fields_for_testing")
    /\ UNCHANGED bodyVars
    /\ UNCHANGED <<seed, field_variations, single_cases, combo_cases, gpt_response,
                   all_test_cases>>
    /\ UNCHANGED execVars
    /\ UNCHANGED <<rules_response, validation_rules>>
    /\ UNCHANGED session_state

\* line 661
RunDefaultBody ==
    /\ pc = "default_body"
    /\ default_body' = get_default_request_body(requirements)
    /\ calls' = Append(calls, "get_default_request_body")
    /\ pc' = "rules"
    /\ UNCHANGED <<openapi, requirements, rules_response, validation_rules,
                   final_result>>
    /\ UNCHANGED genVars
    /\ UNCHANGED execVars
    /\ UNCHANGED session_state

\* lines 667-669; an exception of the oracle call leaves the suite
RunValidationRules ==
    /\ pc = "rules"
    /\ \E output \in RulesOutputs :
          LET rules == generate_validation_rules(output)
              step == step_result(Falsy(rules.value),
                                  "Failed to generate validation rules", "generate")
          IN  /\ rules_response' = output
              /\ validation_rules' = rules.value
              /\ pc' = IF rules.raised THEN "raised" ELSE step.pc
              /\ final_result' = IF rules.raised THEN PyNone ELSE step.final_result
    /\ calls' = Append(calls, "generate_validation_rules")
    /\ UNCHANGED bodyVars
    /\ UNCHANGED genVars
    /\ UNCHANGED execVars
    /\ UNCHANGED session_state

\* lines 674-676, and the call of execute_test_cases of line 681
RunGenerateTestCases ==
    /\ pc = "generate"
    /\ LET auto == automated_test_cases(requirements, selected_fields,
                                        default_body, seed)
       IN  /\ field_variations' = auto.field_variations
           /\ single_cases' = auto.single
           /\ combo_cases' = IF auto.raised THEN PyNone ELSE PyList(auto.combos)
           /\ \E oracle \in SuiteOracleOutputs :
                 /\ gpt_response' = IF auto.raised THEN NotCalled ELSE oracle
                 /\ all_test_cases' =
                       merge_test_cases(auto, selected_fields, default_body, oracle)
    /\ LET step == step_result(Falsy(all_test_cases'),
                               "Failed to generate test cases", "executing")
       IN  pc' = step.pc /\ final_result' = step.final_result
    /\ test_cases' = IF Falsy(all_test_cases') THEN <<>> ELSE all_test_cases'.v
    /\ calls' = Append(calls, "generate_test_cases")
    /\ UNCHANGED <<selected_fields, seed>>
    /\ UNCHANGED bodyVars
    /\ UNCHANGED <<idx, requests_log, results, report>>
    /\ UNCHANGED <<rules_response, validation_rules>>
    /\ UNCHANGED session_state

\* lines 686-695: the report is returned, or its exception leaves the suite
RunReturn ==
    /\ pc = "reported"
    /\ pc' = IF report.raised THEN "raised" ELSE "returned"
    /\ final_result' = IF report.raised THEN PyNone ELSE PyStr("test_report")
    /\ UNCHANGED <<rules_response, validation_rules, calls>>
    /\ UNCHANGED bodyVars
    /\ UNCHANGED genVars
    /\ UNCHANGED execVars
    /\ UNCHANGED session_state

NextSuite ==
    \/ RunAnalyze \/ RunSelectFields \/ RunDefaultBody \/ RunValidationRules
    \/ RunGenerateTestCases
    \/ Dispatch \/ Respond \/ RequestFails \/ GenerateTestReport
    \/ RunReturn

SpecSuite == InitSuite /\ [][NextSuite]_vars

----------------------------------------------------------------------------
(* SpecApp: the Streamlit app of src/streamlit_app.py; one action is one   *)
(* run of the script with a button pressed or the selection changed        *)

\* what the request of a case comes back with: a response or the exception
Outcomes == Responses \cup {PyStr(TransportError)}

\* one iteration of the loop of execute_test_cases, the request coming back
\* with the given outcome
execute_one(case, outcome) ==
    LET d == dispatch(case)
    IN  IF d.raised THEN ErrorResult(case, d.error)
        ELSE IF outcome = PyStr(TransportError) THEN ErrorResult(case, TransportError)
        ELSE ResponseResult(case, outcome)

\* execute_test_cases, outcomes[i] being what the i-th request comes back with
execute_test_cases(cases, outcomes) ==
    [i \in 1..Len(cases) |-> execute_one(cases[i], outcomes[i])]

\* everything but pc and the session state
outsideApp ==
    <<openapi, requirements, default_body, selected_fields, seed, field_variations,
      single_cases, combo_cases, gpt_response, all_test_cases, test_cases, idx,
      requests_log, results, report, rules_response, validation_rules, calls,
      final_result>>

InitApp ==
    /\ pc = "app"
    /\ openapi \in SuiteDocs
    /\ requirements = PyNone
    /\ default_body = EmptyDict
    /\ Idle

\* streamlit_app.py lines 423-438: the button is shown while the analysis is
\* not complete; configured: endpoint and key are both filled in
StartAnalysis ==
    /\ ~session_state.analysis_complete
    /\ \E configured \in BOOLEAN :
          IF ~configured THEN UNCHANGED session_state
          ELSE LET reqs == analyze_endpoint_requirements(openapi)
               IN  session_state' =
                      [session_state EXCEPT
                          !.requirements = reqs,
                          !.analysis_complete = (reqs # PyNone)]
    /\ pc' = "analysis"
    /\ UNCHANGED outsideApp

\* the options of the multiselect of lines 447-461, and what can be chosen
AvailableFields == AllFieldsInOrder(session_state.requirements)
Multiselections ==
    {FilterSeq(AvailableFields, S) : S \in SUBSET SeqToSet(AvailableFields)}

\* lines 456-464 and 505-506: a run of the script with no button pressed
ChangeSelection ==
    /\ session_state.analysis_complete
    /\ \E selection \in Multiselections :
          session_state' =
              IF selection # <<>>
              THEN [session_state EXCEPT !.selected_fields = selection]
              ELSE session_state
    /\ pc' = "selection"
    /\ UNCHANGED outsideApp

\* lines 473-504 for one press of the button: the session state after it.
\* An exception of generate_validation_rules or of generate_test_report is
\* caught at line 503 and leaves what was assigned before it.
generate_and_run(state, rules_output, oracle, outcomes) ==
    LET rules == generate_validation_rules(rules_output)
        body == get_default_request_body(state.requirements)
        auto == automated_test_cases(state.requirements, state.selected_fields,
                                     body, seed)
        cases == merge_test_cases(auto, state.selected_fields, body, oracle)
        with_rules == [state EXCEPT !.validation_rules = rules.value]
    IN  IF rules.raised THEN state
        ELSE IF Falsy(rules.value) THEN with_rules
        ELSE IF Falsy(cases) THEN with_rules
        ELSE LET final_report ==
                     generate_test_report(
                         execute_test_cases(cases.v, outcomes[Len(cases.v)]))
             IN  IF final_report.raised THEN with_rules
                 ELSE [with_rules EXCEPT !.test_results = final_report]

\* for each number of cases, what their requests come back with
OutcomeChoices ==
    {[n \in 0..2 |-> IF n = 0 THEN <<>> ELSE IF n = 1 THEN <<a>> ELSE <<a, b>>] :
        a \in Outcomes, b \in Outcomes}

\* lines 463-504: the selection is not empty and the button is pressed
GenerateAndRun ==
    /\ session_state.analysis_complete
    /\ \E selection \in Multiselections \ {<<>>} :
       \E rules_output \in RulesOutputs :
       \E oracle \in SuiteOracleOutputs :
       \E outcomes \in OutcomeChoices :
          session_state' =
              generate_and_run([session_state EXCEPT !.selected_fields = selection],
                               rules_output, oracle, outcomes)
    /\ pc' = "run"
    /\ UNCHANGED outsideApp

\* lines 556-563
ResetAnalysis ==
    /\ session_state.analysis_complete
    /\ session_state' =
          [session_state EXCEPT
              !.analysis_complete = FALSE, !.requirements = PyNone,
              !.selected_fields = <<>>, !.validation_rules = PyNone,
              !.test_results = PyNone]
    /\ pc' = "reset"
    /\ UNCHANGED outsideApp

NextApp == StartAnalysis \/ ChangeSelection \/ GenerateAndRun \/ ResetAnalysis

SpecApp == InitApp /\ [][NextApp]_vars

----------------------------------------------------------------------------
(* Properties of the default body (SpecBody) *)

DeclaredTag(type) ==
    IF type = PyStr("string") THEN "str"
    ELSE IF type = PyStr("boolean") THEN "bool"
    ELSE IF type = PyStr("integer") THEN "int"
    ELSE "other"

\* C3: the default body returned for a requirements model contains every
\* required field name of the model (get_default_request_body has no failure
\* outcome, so a returned body is the only case).
C3_RequiredFieldsPresent ==
    pc = "body" =>
        \A f \in DOMAIN requirements.required_fields : f \in DOMAIN default_body

\* C4: every required field declared string, boolean or integer has, in the
\* default body, a value of that type.
C4_ValueTypeMatchesDeclared ==
    pc = "body" =>
        \A f \in DOMAIN requirements.required_fields :
            LET tag == DeclaredTag(requirements.required_fields[f].type)
            IN  tag # "other" =>
                    /\ f \in DOMAIN default_body
                    /\ default_body[f].t = tag

\* every field of the requirements model, with its bucket's entry
AllFieldData ==
    [f \in DOMAIN requirements.required_fields \cup DOMAIN requirements.optional_fields |->
        IF f \in DOMAIN requirements.required_fields
        THEN requirements.required_fields[f]
        ELSE requirements.optional_fields[f]]

\* C19: every field of a built requirements model, of whatever declared type,
\* carries an example, and the example is not null.
C19_ExampleAlwaysPresent ==
    pc \in {"analyzed", "body"} =>
        \A f \in DOMAIN AllFieldData :
            /\ AllFieldData[f].example # Absent
            /\ AllFieldData[f].example # PyNone

\* what the code does: an example exists exactly for the fields named email
\* or like a password and for those declared string or boolean
ExampleOnlyByNameOrType ==
    pc \in {"analyzed", "body"} =>
        \A f \in DOMAIN AllFieldData :
            AllFieldData[f].example # Absent <=>
                \/ f \in {"email", "password"}
                \/ AllFieldData[f].type \in {PyStr("string"), PyStr("boolean")}

\* a model with a field declared integer, object, array or as a union
ModelWithUntypedExample ==
    /\ pc = "analyzed"
    /\ \E f \in DOMAIN AllFieldData :
          /\ f = "age"
          /\ AllFieldData[f].type \in {PyStr("integer"), PyStr("object"), PyStr("array")}

\* the fetch returned a 200 response holding a JSON document
Fetched == openapi.fetch = "response" /\ openapi.status = 200 /\ openapi.is_json

\* C20: with the document fetched, a missing path, a missing POST operation,
\* a missing JSON request schema and a $ref naming a schema that is not in
\* components.schemas all give the one 'not found' outcome, which is neither
\* the outcome of a failed fetch nor that of a network error; a response with
\* a status other than 200 gives the fetch-failure outcome with that status.
C20_NotFoundIsDistinct ==
    pc = "halted" =>
        LET result == analyze_endpoint_structure(openapi)
        IN  /\ (Fetched /\ ~(/\ openapi.has_path /\ openapi.has_post
                             /\ openapi.has_schema /\ openapi.ref_resolves)) =>
                   /\ result = NotFoundResult
                   /\ result # AnalysisFailedResult
                   /\ result # FetchFailedResult(openapi.status)
            /\ (openapi.fetch = "response" /\ openapi.status # 200) =>
                   /\ result = FetchFailedResult(openapi.status)
                   /\ result.status_code = PyInt(openapi.status)

\* what the code does: the $ref that does not resolve ends in the outcome of
\* the exception handler, the one a network error gives
UnresolvedRefIsAnalysisFailure ==
    pc = "halted" =>
        LET result == analyze_endpoint_structure(openapi)
        IN  /\ (Fetched /\ ~(/\ openapi.has_path /\ openapi.has_post
                             /\ openapi.has_schema)) => result = NotFoundResult
            /\ (Fetched /\ openapi.has_path /\ openapi.has_post /\ openapi.has_schema
                /\ openapi.has_ref /\ ~openapi.ref_resolves) =>
                   result = AnalysisFailedResult
            /\ openapi.fetch = "exception" => result = AnalysisFailedResult
            /\ (openapi.fetch = "response" /\ openapi.status # 200) =>
                   /\ result = FetchFailedResult(openapi.status)
                   /\ result.status_code = PyInt(openapi.status)

\* C21: whatever the fetch and the lookup gave (network error, a status other
\* than 200, a body that is not JSON, a missing path, operation, schema or
\* referenced schema), analyze_endpoint_requirements returns; it returns None
\* when the structure analysis failed and a requirements model, with one
\* entry per property of the schema, exactly when it succeeded.
C21_ModelIffStructureSucceeded ==
    pc # "start" =>
        LET analysis == analyze_endpoint_structure(openapi)
        IN  /\ requirements # PyNone <=> analysis.success
            /\ requirements = PyNone <=> pc = "halted"
            /\ analysis.success <=> openapi \in SchemaDocs
            /\ requirements # PyNone =>
                  /\ DOMAIN requirements.required_fields
                        \cup DOMAIN requirements.optional_fields
                     = DOMAIN openapi.properties
                  /\ DOMAIN requirements.required_fields
                        \cap DOMAIN requirements.optional_fields = {}

\* the analysis was run on a fetch that ended in a network error
C21_Witness ==
    /\ pc = "halted"
    /\ openapi.fetch = "exception"
    /\ ~analyze_endpoint_structure(openapi).success

----------------------------------------------------------------------------
(* Properties of the generated test cases (SpecGen) *)

Generated == pc = "generated" /\ all_test_cases # PyNone

\* the (field, value) pairs of the selected fields, in order
RECURSIVE PairsOf(_, _)
PairsOf(fields, fv) ==
    IF fields = <<>> THEN <<>>
    ELSE [i \in 1..Len(fv[Head(fields)]) |-> <<Head(fields), fv[Head(fields)][i]>>]
         \o PairsOf(Tail(fields), fv)

SinglePairs == PairsOf(selected_fields, field_variations)

\* the oracle's scenarios of a returned list
Scenarios == IF gpt_response.kind = "json" /\ gpt_response.value.t = "list"
             THEN gpt_response.value.v ELSE <<>>

\* C1: every test case of a returned list has every key of the default body
\* in its data.
C1_DataHasDefaultKeys ==
    Generated =>
        \A i \in 1..Len(all_test_cases.v) :
            DOMAIN default_body \subseteq DOMAIN all_test_cases.v[i].data.v

\* a returned list with single-field cases, combination cases and a scenario
\* that declared fewer fields than the default body has
C1_Witness ==
    /\ Generated
    /\ Len(single_cases) > 0
    /\ Len(combo_cases.v) > 0
    /\ Cardinality(DOMAIN default_body) >= 2
    /\ \E i \in 1..Len(Scenarios) :
          /\ IsCase(Scenarios[i])
          /\ Scenarios[i].data.t = "dict"
          /\ ~(DOMAIN default_body \subseteq DOMAIN Scenarios[i].data.v)

\* d agrees with the default body on every key outside S, and has no other key
\* outside S
SameOutside(d, S) ==
    \A g \in (DOMAIN d \cup DOMAIN default_body) \ S :
        g \in DOMAIN d /\ g \in DOMAIN default_body /\ d[g] = default_body[g]

\* C2: in a returned list the i-th single-field case, for the pair (f, v), has
\* data[f] = v and the default body's value under every other key; a
\* combination case has the default body's value under every key outside its
\* subset of fields.
C2_OnlyTestedFieldsDiffer ==
    Generated =>
        /\ \A i \in 1..Len(single_cases) :
              LET d == all_test_cases.v[i].data.v
                  f == SinglePairs[i][1]
              IN  f \in DOMAIN d /\ d[f] = SinglePairs[i][2] /\ SameOutside(d, {f})
        /\ \A c \in 1..Len(combo_cases.v) :
              SameOutside(all_test_cases.v[Len(single_cases) + c].data.v,
                          SeqToSet(AllCombos(selected_fields)[((c - 1) \div 3) + 1]))

\* a returned list with a single-field case whose value differs from the
\* default, a combination case, and a default-body key that was not selected
C2_Witness ==
    /\ Generated
    /\ Len(combo_cases.v) > 0
    /\ DOMAIN default_body \ SeqToSet(selected_fields) # {}
    /\ \E i \in 1..Len(single_cases) :
          /\ SinglePairs[i][1] \in DOMAIN default_body
          /\ SinglePairs[i][2] # default_body[SinglePairs[i][1]]

Binom2(k) == (k * (k - 1)) \div 2
Binom3(k) == (k * (k - 1) * (k - 2)) \div 6

\* C5: for k selected fields the combination pass emits exactly
\* 3 * (C(k,2) + C(k,3)) cases, each expecting 200.
C5_CombinationCount ==
    pc = "generated" =>
        /\ combo_cases # PyNone
        /\ Len(combo_cases.v) =
              3 * (Binom2(Len(selected_fields)) + Binom3(Len(selected_fields)))
        /\ \A c \in 1..Len(combo_cases.v) :
              combo_cases.v[c].expected_status_code = PyInt(200)

\* what the code does do: the count is exact in the runs in which the pass
\* returns, which are those where no field of a combination has an empty list
CombinationCountWhenReturned ==
    pc = "generated" =>
        /\ combo_cases = PyNone <=>
              /\ Len(selected_fields) >= 2
              /\ \E f \in SeqToSet(selected_fields) : field_variations[f] = <<>>
        /\ combo_cases # PyNone =>
              Len(combo_cases.v) =
                 3 * (Binom2(Len(selected_fields)) + Binom3(Len(selected_fields)))

\* C6: the single-field pass emits one case per (field, value) pair, in order,
\* expecting 400 exactly when the value is the empty string and 200 otherwise.
C6_SingleFieldPass ==
    pc = "generated" =>
        /\ Len(single_cases) = Len(SinglePairs)
        /\ \A i \in 1..Len(single_cases) :
              /\ single_cases[i].data.v[SinglePairs[i][1]] = SinglePairs[i][2]
              /\ single_cases[i].expected_status_code =
                    IF SinglePairs[i][2].t = "str" /\ SinglePairs[i][2].v = ""
                    THEN PyInt(400) ELSE PyInt(200)

\* the pass emitted a case for an empty string and cases for null, 0 and False
C6_Witness ==
    /\ pc = "generated"
    /\ \E i \in 1..Len(single_cases) :
          /\ SinglePairs[i][2] = PyStr("")
          /\ single_cases[i].expected_status_code = PyInt(400)
    /\ \A v \in {PyNone, PyInt(0), PyBool(FALSE)} :
          \E i \in 1..Len(single_cases) :
              /\ SinglePairs[i][2] = v
              /\ single_cases[i].expected_status_code = PyInt(200)

\* the scenario oracle was called and did not deliver a JSON list of test cases
OracleFailed ==
    /\ gpt_response # NotCalled
    /\ \/ gpt_response.kind \in {"exception", "text"}
       \/ gpt_response.value.t # "list"
       \/ \E i \in 1..Len(gpt_response.value.v) :
             gpt_response.value.v[i] \notin {Scenario(d) : d \in ScenarioData}

\* C12: when the scenario oracle call fails, or its output is not a JSON list
\* of test cases, generate_test_cases returns the automatically generated
\* single-field and combination cases.
C12_AutomatedCasesSurviveOracleFailure ==
    (pc = "generated" /\ OracleFailed) =>
        /\ all_test_cases # PyNone
        /\ Len(all_test_cases.v) = Len(single_cases) + Len(combo_cases.v)
        /\ \A i \in 1..Len(single_cases) :
              all_test_cases.v[i].name = single_cases[i].name

\* what the code does instead: nothing is returned
NoneOnOracleFailure ==
    (pc = "generated" /\ OracleFailed) => all_test_cases = PyNone

\* an oracle failure after automated cases were built
OracleFailedAfterCases ==
    /\ pc = "generated"
    /\ OracleFailed
    /\ Len(single_cases) > 0
    /\ combo_cases # PyNone /\ Len(combo_cases.v) > 0

\* the selected fields whose variation list is empty, and the others
EmptyFields == {f \in SeqToSet(selected_fields) : field_variations[f] = <<>>}
VariedFields == SeqToSet(selected_fields) \ EmptyFields

\* the oracle was called and did not deliver a list of scenarios whose data
\* is an object or is left out
OracleUnusable ==
    \/ OracleFailed
    \/ /\ gpt_response # NotCalled
       /\ \E i \in 1..Len(gpt_response.value.v) :
             /\ gpt_response.value.v[i].data # Absent
             /\ gpt_response.value.v[i].data.t # "dict"

\* C15: a selected field with an empty variation list is excluded: no
\* single-field case and no combination case is built for it, the combinations
\* are those of the remaining selected fields, and generate_test_cases returns
\* their cases unless the oracle's answer was unusable.
C15_EmptyVariationFieldExcluded ==
    (pc = "generated" /\ EmptyFields # {}) =>
        /\ \A i \in 1..Len(single_cases) : SinglePairs[i][1] \in VariedFields
        /\ combo_cases # PyNone
        /\ Len(combo_cases.v) =
              CasesPerCombo * (Binom2(Cardinality(VariedFields))
                               + Binom3(Cardinality(VariedFields)))
        /\ ~OracleUnusable => all_test_cases # PyNone

\* what the code does: with two or more selected fields of which one has no
\* variations, the combination pass raises and nothing is returned
NoneOnEmptyVariationField ==
    (pc = "generated" /\ EmptyFields # {} /\ Len(selected_fields) >= 2) =>
        /\ combo_cases = PyNone
        /\ gpt_response = NotCalled
        /\ all_test_cases = PyNone

\* a field without variations selected next to one with variations
EmptyFieldNextToVaried ==
    /\ pc = "generated"
    /\ EmptyFields # {}
    /\ VariedFields # {}

\* the cases of all_test_cases that came from the oracle, with the scenario
\* each was made from: <<normalized case, scenario>>
OraclePairs ==
    LET n == Len(single_cases) + Len(combo_cases.v)
    IN  [j \in 1..Len(gpt_response.value.v) |->
            <<all_test_cases.v[n + j], gpt_response.value.v[j]>>]

\* the default body with every field the scenario declares laid over it
DefaultsOverridden(declared) ==
    [f \in DOMAIN default_body \cup DOMAIN declared |->
        IF f \in DOMAIN declared THEN declared[f] ELSE default_body[f]]

\* C18: the data of an oracle scenario, as returned, is the default body with
\* every field the scenario declares overriding it, selected or not.
C18_ScenarioOverridesDefaults ==
    Generated =>
        \A j \in 1..Len(OraclePairs) :
            LET declared == OraclePairs[j][2].data
            IN  (declared # Absent /\ declared.t = "dict") =>
                    OraclePairs[j][1].data = PyDict(DefaultsOverridden(declared.v))

\* what the code does: only the selected fields of the scenario override
ScenarioOverridesSelectedOnly ==
    Generated =>
        \A j \in 1..Len(OraclePairs) :
            LET declared == OraclePairs[j][2].data
            IN  (declared # Absent /\ declared.t = "dict") =>
                    OraclePairs[j][1].data =
                        PyDict(DefaultsOverridden(
                            [f \in DOMAIN declared.v \cap SeqToSet(selected_fields)
                                |-> declared.v[f]]))

\* a returned scenario that declared a field which is not selected
ScenarioDeclaresUnselected ==
    /\ Generated
    /\ \E j \in 1..Len(OraclePairs) :
          /\ OraclePairs[j][2].data # Absent
          /\ OraclePairs[j][2].data.t = "dict"
          /\ DOMAIN OraclePairs[j][2].data.v \ SeqToSet(selected_fields) # {}

\* the variation list a second call builds for field f, the random
\* generators being in the state s
SecondCall(f, s) == build_field_variations(requirements, selected_fields, s)[f]

\* the field is declared a string and named like a password, or declared integer
HasOneRandomEntry(f) ==
    LET info == FieldInfoOf(requirements, f)
    IN  \/ info.type = PyStr("integer")
        \/ /\ info.type = PyStr("string")
           /\ NameContains("password", f)
           /\ ~NameContains("email", f) /\ ~NameContains("name", f)

\* C22: two calls of the variation generator for the same field and spec give
\* lists of the same length that differ at most in the first entry of a
\* password-like or an integer field; the lists of email-like, name-like and
\* phone-like fields are the same in both calls.
C22_VariationsAgreeAcrossCalls ==
    pc = "generated" =>
        \A f \in SeqToSet(selected_fields) : \A s \in Seeds :
            LET first == field_variations[f]
                second == SecondCall(f, s)
            IN  /\ Len(first) = Len(second)
                /\ \A i \in 1..Len(first) :
                      first[i] # second[i] => (i = 1 /\ HasOneRandomEntry(f))

\* what the code does: the entries drawn from Faker differ as well, which are
\* the first DrawsOf entries of each list
VariationsAgreeAfterDraws ==
    pc = "generated" =>
        \A f \in SeqToSet(selected_fields) : \A s \in Seeds :
            LET first == field_variations[f]
                second == SecondCall(f, s)
                drawn == IF NameContains("email", f) /\ first # <<>> THEN 4
                         ELSE DrawsOf(f, FieldInfoOf(requirements, f))
            IN  /\ Len(first) = Len(second)
                /\ \A i \in 1..Len(first) : first[i] # second[i] => i <= drawn

\* an email field whose two lists differ in a Faker entry
EmailListsDiffer ==
    /\ pc = "generated"
    /\ "email" \in SeqToSet(selected_fields)
    /\ \E s \in Seeds : \E i \in 1..4 :
          /\ Len(field_variations["email"]) = 8
          /\ field_variations["email"][i] # SecondCall("email", s)[i]

----------------------------------------------------------------------------
(* Properties of the execution and of the report (SpecExec) *)

\* the input of execute_test_cases, as generated
Inputs == all_test_cases.v

\* an executed case without the fields the execution wrote
InputOf(r) ==
    [name |-> r.name, method |-> r.method, data |-> r.data,
     expected_status_code |-> r.expected_status_code,
     expected_behavior |-> r.expected_behavior]

\* the requests that have come back
Answered == {e \in 1..Len(requests_log) : requests_log[e].outcome # Absent}

\* C7: a case whose request failed with a transport error is recorded with
\* actual_status_code "Error", passed false and the error message; every
\* other case is still executed, and scored from its own expected status and
\* its own response.
C7_FailureIsolation ==
    /\ \A e \in Answered :
          LET i == requests_log[e].case
              outcome == requests_log[e].outcome
          IN  /\ i <= Len(results)
              /\ IF outcome = PyStr(TransportError)
                 THEN /\ results[i].actual_status_code = PyStr("Error")
                      /\ results[i].test_result.passed = PyBool(FALSE)
                      /\ results[i].test_result.error = PyStr(TransportError)
                 ELSE /\ results[i].actual_status_code = outcome
                      /\ results[i].test_result.passed =
                            PyBool(Inputs[i].expected_status_code = outcome)
    /\ pc = "reported" =>
          /\ Len(results) = Len(Inputs)
          /\ \A i \in 1..Len(Inputs) :
                ~dispatch(Inputs[i]).raised =>
                    \E e \in Answered : requests_log[e].case = i

\* a finished run in which a request failed between two answered ones, one of
\* which passed
C7_Witness ==
    /\ pc = "reported"
    /\ \E e \in Answered :
          /\ requests_log[e].outcome = PyStr(TransportError)
          /\ e > 1 /\ e < Len(requests_log)
          /\ requests_log[e - 1].outcome.t = "int"
          /\ requests_log[e + 1].outcome.t = "int"
          /\ results[requests_log[e + 1].case].test_result.passed = PyBool(TRUE)

\* C8, as claimed: passed is true exactly when expected_status_code equals
\* the recorded actual_status_code, also for the cases recorded as "Error".
C8_PassedIffEqual ==
    \A i \in 1..Len(results) :
        results[i].test_result.passed =
            PyBool(results[i].expected_status_code = results[i].actual_status_code)

\* C8, amended: passed is true exactly when the recorded actual_status_code
\* is not "Error" and equals expected_status_code; a case recorded as "Error"
\* has passed false whatever it expected.
C8_PassedIffResponseMatches ==
    \A i \in 1..Len(results) :
        results[i].test_result.passed =
            PyBool(/\ results[i].actual_status_code # PyStr("Error")
                   /\ results[i].expected_status_code = results[i].actual_status_code)

\* results with a passed case, a mismatch, and an "Error" case that expected "Error"
C8_Witness ==
    /\ \E i \in 1..Len(results) : results[i].test_result.passed = PyBool(TRUE)
    /\ \E i \in 1..Len(results) :
          /\ results[i].actual_status_code.t = "int"
          /\ results[i].test_result.passed = PyBool(FALSE)
    /\ \E i \in 1..Len(results) :
          /\ results[i].actual_status_code = PyStr("Error")
          /\ results[i].expected_status_code = PyStr("Error")

\* C9: the cases are requested at most once each, in list order and one at a
\* time, the request of a case being sent only when the case before it has its
\* result; the results are the inputs, in order; and the report counts them all.
C9_NothingDroppedOrDuplicated ==
    /\ Len(results) <= Len(Inputs)
    /\ \A i \in 1..Len(results) : InputOf(results[i]) = Inputs[i]
    /\ \A e \in 1..Len(requests_log) :
          /\ requests_log[e].case \in 1..Len(Inputs)
          /\ e > 1 => requests_log[e - 1].case < requests_log[e].case
          /\ requests_log[e].outcome = Absent =>
                /\ e = Len(requests_log)
                /\ pc = "awaiting"
                /\ Len(results) = requests_log[e].case - 1
          /\ requests_log[e].outcome # Absent => Len(results) >= requests_log[e].case
    /\ (pc = "reported" /\ ~report.raised) =>
          /\ Len(results) = Len(Inputs)
          /\ report.test_results = results
          /\ report.summary.total_tests = Len(Inputs)

\* a report over three or more cases, one failed in transport, one answered
C9_Witness ==
    /\ pc = "reported"
    /\ ~report.raised
    /\ report.summary.total_tests >= 3
    /\ \E e \in Answered : requests_log[e].outcome = PyStr(TransportError)
    /\ \E e \in Answered : requests_log[e].outcome.t = "int"

DecimalDigits == <<"0", "1", "2", "3", "4", "5", "6", "7", "8", "9">>
IsDigit(c) == \E d \in 1..10 : DecimalDigits[d] = c
DigitValue(c) == (CHOOSE d \in 1..10 : DecimalDigits[d] = c) - 1

\* the number a sequence of digits denotes
RECURSIVE Number(_)
Number(cs) == IF cs = <<>> THEN 0
              ELSE 10 * Number(SubSeq(cs, 1, Len(cs) - 1)) + DigitValue(cs[Len(cs)])

Abs(x) == IF x < 0 THEN -x ELSE x

PassedCount == Cardinality({i \in 1..Len(results) :
                               results[i].test_result.passed = PyBool(TRUE)})

\* C10: success_rate is "0%" for no results; otherwise it is digits, a point,
\* two digits and "%", and the number it shows is passed/total as a percentage
\* rounded to the nearest hundredth; 3 passed of 4 gives "75.00%".
C10_SuccessRate ==
    (pc = "reported" /\ ~report.raised) =>
        LET s == report.summary.success_rate
            n == Len(s)
            total == Len(results)
        IN  IF total = 0 THEN s = <<"0", "%">>
            ELSE /\ n >= 5
                 /\ s[n] = "%"
                 /\ s[n - 3] = "."
                 /\ \A k \in (1..(n - 1)) \ {n - 3} : IsDigit(s[k])
                 /\ n > 5 => s[1] # "0"
                 /\ 2 * Abs((100 * Number(SubSeq(s, 1, n - 4))
                             + Number(SubSeq(s, n - 2, n - 1))) * total
                            - 10000 * PassedCount) <= total
                 /\ (PassedCount = 3 /\ total = 4) =>
                        s = <<"7", "5", ".", "0", "0", "%">>

\* the report of four results of which three passed
C10_Witness ==
    /\ pc = "reported"
    /\ ~report.raised
    /\ Len(results) = 4
    /\ PassedCount = 3
    /\ report.summary.success_rate = <<"7", "5", ".", "0", "0", "%">>


----------------------------------------------------------------------------
(* Properties of the report and of the dispatch (SpecDispatch) *)

\* the indices of the results that did not pass
NonPassed == {i \in 1..Len(results) : results[i].test_result.passed # PyBool(TRUE)}

\* the k-th of them, in result order
NthNonPassed(k) ==
    CHOOSE i \in NonPassed : Cardinality({j \in NonPassed : j < i}) = k - 1

\* the counts and the failed-tests summary of a report, set against the results
ReportMatchesResults ==
    /\ report.summary.total_tests = Len(results)
    /\ report.summary.passed_tests = Len(results) - Cardinality(NonPassed)
    /\ report.summary.failed_tests =
          report.summary.total_tests - report.summary.passed_tests
    /\ Len(report.failed_tests_summary) = report.summary.failed_tests
    /\ \A k \in 1..Len(report.failed_tests_summary) :
          LET r == results[NthNonPassed(k)]
              e == report.failed_tests_summary[k]
          IN  /\ e.name = r.name
              /\ e.expected_status = r.expected_status_code
              /\ e.actual_status = r.actual_status_code
              /\ e.error = IF r.test_result.error = Absent
                           THEN PyStr("No error message")
                           ELSE r.test_result.error

\* C11: for every executed result sequence generate_test_report returns a
\* report in which total_tests is the number of results, passed_tests the
\* number of passed results, failed_tests their difference, and
\* failed_tests_summary has one entry (name, expected status, actual status,
\* error) per non-passed result, in result order.
C11_ReportMatchesResults ==
    pc = "reported" => (~report.raised /\ ReportMatchesResults)

\* the same for the result sequences on which generate_test_report returns
ReportMatchesResultsWhenReturned ==
    (pc = "reported" /\ ~report.raised) => ReportMatchesResults

\* a returned report over results of which two did not pass
ReportWithTwoFailures ==
    /\ pc = "reported"
    /\ ~report.raised
    /\ Len(report.failed_tests_summary) = 2
    /\ Len(results) = 2

\* the method of a case as the loop compares it
MethodOf(case) == Lower(case.method.v)

SupportedMethods == {"get", "post", "put", "delete"}

\* the entries of the request log made for case i
RequestsOf(i) == {e \in 1..Len(requests_log) : requests_log[e].case = i}

\* C16: a case whose method is none of get/post/put/delete, whatever its
\* letter case, has no request issued for it and is recorded with
\* actual_status_code "Error", passed false and the unsupported-method error;
\* the cases after it are handled as if it had not been there.
C16_UnsupportedMethodRecorded ==
    /\ \A i \in 1..Len(Inputs) :
          MethodOf(Inputs[i]) \notin SupportedMethods =>
              /\ RequestsOf(i) = {}
              /\ i <= Len(results) =>
                    /\ results[i].actual_status_code = PyStr("Error")
                    /\ results[i].test_result.passed = PyBool(FALSE)
                    /\ results[i].test_result.error =
                          PyStr("Unsupported method: " \o MethodOf(Inputs[i]))
    /\ pc = "reported" =>
          /\ Len(results) = Len(Inputs)
          /\ \A i \in 1..Len(Inputs) :
                MethodOf(Inputs[i]) \in SupportedMethods =>
                    Cardinality(RequestsOf(i)) = 1

\* a finished run in which a case of an unsupported method came first and the
\* case after it was requested and passed
C16_Witness ==
    /\ pc = "reported"
    /\ Len(Inputs) = 2
    /\ MethodOf(Inputs[1]) = "patch"
    /\ results[1].test_result.error = PyStr("Unsupported method: patch")
    /\ RequestsOf(2) # {}
    /\ results[2].test_result.passed = PyBool(TRUE)

\* C17: for each of get, post, put and delete the request goes to
\* <endpoint>/<id> when the payload has an id and to <endpoint> otherwise;
\* GET carries the payload as query parameters, the other methods as a JSON
\* body.
C17_RequestTargetAndPayload ==
    \A e \in 1..Len(requests_log) :
        LET case == Inputs[requests_log[e].case]
            request == requests_log[e].request
        IN  /\ request.url = IF "id" \in DOMAIN case.data.v
                             THEN SpecificEndpoint(case.data)
                             ELSE Endpoint
            /\ IF MethodOf(case) = "get"
               THEN request.params = case.data /\ request.json = Absent
               ELSE request.json = case.data /\ request.params = Absent

\* what the code does, method by method
RequestAsDispatched ==
    \A e \in 1..Len(requests_log) :
        LET case == Inputs[requests_log[e].case]
            request == requests_log[e].request
            has_id == "id" \in DOMAIN case.data.v
        IN  /\ request.url = IF has_id /\ MethodOf(case) # "post"
                             THEN SpecificEndpoint(case.data)
                             ELSE Endpoint
            /\ request.params = IF MethodOf(case) = "get" /\ ~has_id
                                THEN case.data ELSE Absent
            /\ request.json = IF MethodOf(case) \in {"post", "put"}
                              THEN case.data ELSE Absent

\* requests made for a POST and for a DELETE whose payloads have an id
PostAndDeleteWithId ==
    /\ \E e \in 1..Len(requests_log) :
          /\ requests_log[e].request.verb = "POST"
          /\ "id" \in DOMAIN Inputs[requests_log[e].case].data.v
    /\ \E e \in 1..Len(requests_log) :
          /\ requests_log[e].request.verb = "DELETE"
          /\ "id" \in DOMAIN Inputs[requests_log[e].case].data.v

----------------------------------------------------------------------------
(* Properties of run_complete_test_suite (SpecSuite) *)

Called(function) == function \in SeqToSet(calls)

\* the validation-rule oracle call raised, or its output was not JSON
RulesOracleFailed == rules_response.kind \in {"exception", "text"}

\* run_complete_test_suite is over
SuiteEnded == pc \in {"returned", "raised"}

\* C13: when the validation-rule oracle call fails or its output cannot be
\* parsed, run_complete_test_suite does not end before it has generated the
\* test cases, and when its cases were generated it executes them and builds
\* the report.
C13_RulesFailureDoesNotAbort ==
    (RulesOracleFailed /\ SuiteEnded) =>
        /\ Called("generate_test_cases")
        /\ ~Falsy(all_test_cases) => report # PyNone

\* what the code does: the run is over as soon as the rules are missing
RulesFailureEndsRun ==
    RulesOracleFailed =>
        /\ SuiteEnded
        /\ calls[Len(calls)] = "generate_validation_rules"
        /\ pc = "raised" <=> rules_response.kind = "exception"
        /\ pc = "returned" =>
              final_result = PyStr("Failed to generate validation rules")
        /\ gpt_response = NotCalled /\ requests_log = <<>> /\ report = PyNone

\* C14: when the schema fetch or the requirements analysis fails, the run
\* returns at that step: after the analysis no field is selected, no default
\* body is built, no oracle is called, no test case is generated and no
\* request is sent.
C14_HaltsOnAnalysisFailure ==
    (pc # "suite" /\ ~analyze_endpoint_structure(openapi).success) =>
        /\ pc = "returned"
        /\ final_result = PyStr("Failed to analyze endpoint requirements")
        /\ calls = <<"analyze_endpoint_requirements">>
        /\ requirements = PyNone
        /\ selected_fields = <<>>
        /\ default_body = EmptyDict
        /\ rules_response.kind = "not called" /\ validation_rules = PyNone
        /\ gpt_response = NotCalled
        /\ all_test_cases = PyNone /\ test_cases = <<>>
        /\ requests_log = <<>> /\ results = <<>> /\ report = PyNone
        /\ ~ENABLED NextSuite

\* a run that returned after the $ref of the document did not resolve
C14_Witness ==
    /\ pc = "returned"
    /\ ~openapi.ref_resolves
    /\ calls # <<>>
    /\ final_result = PyStr("Failed to analyze endpoint requirements")

\* a run whose rules oracle answered with prose
RulesOracleAnsweredProse ==
    /\ rules_response.kind = "text"
    /\ Called("get_default_request_body")

\* the keys execute_test_cases assigns
WrittenKeys == {"actual_status_code", "actual_response", "test_result"}

\* C23: an executed case is the case it was with actual_status_code,
\* actual_response and test_result added and nothing else changed: name,
\* method, data, expected_status_code and expected_behavior are the input's;
\* the cases not yet reached are untouched; the list handed to
\* execute_test_cases holds the executed cases themselves; and after
\* generate_test_report the results are still what the execution recorded.
C23_ExecutionOnlyAddsFields ==
    /\ Len(test_cases) = Len(Inputs)
    /\ \A i \in 1..Len(Inputs) :
          IF i <= Len(results)
          THEN /\ test_cases[i] = results[i]
               /\ DOMAIN results[i] = DOMAIN Inputs[i] \cup WrittenKeys
               /\ \A k \in DOMAIN Inputs[i] : results[i][k] = Inputs[i][k]
          ELSE test_cases[i] = Inputs[i]
    /\ (pc = "reported" /\ ~report.raised) =>
          /\ report.test_results = results
          /\ \A e \in Answered :
                results[requests_log[e].case].actual_status_code
                   \in {requests_log[e].outcome, PyStr("Error")}

\* a report over two executed cases, one answered and one not requested
C23_Witness ==
    /\ pc = "reported"
    /\ ~report.raised
    /\ Len(results) = 2
    /\ \E i \in 1..2 : results[i].actual_status_code.t = "int"
    /\ \E i \in 1..2 : RequestsOf(i) = {}

\* the oracle's answer parsed as a JSON list of objects
OracleGaveObjects ==
    /\ gpt_response.kind = "json"
    /\ gpt_response.value.t = "list"
    /\ \A i \in 1..Len(gpt_response.value.v) :
          gpt_response.value.v[i] \notin
              {PyStr("no scenarios"), PyNone, PyInt(0), PyBool(TRUE)}

\* C25: when the oracle's answer parses as a JSON list of objects, every case
\* generate_test_cases returns carries name, method, data and
\* expected_status_code, and the run goes through execute_test_cases and
\* generate_test_report without an exception leaving it.
C25_CasesCompleteAndSuiteReturns ==
    (OracleGaveObjects /\ all_test_cases # PyNone) =>
        /\ \A i \in 1..Len(all_test_cases.v) :
              /\ all_test_cases.v[i].name # Absent
              /\ all_test_cases.v[i].method # Absent
              /\ all_test_cases.v[i].data # Absent
              /\ all_test_cases.v[i].expected_status_code # Absent
        /\ pc # "raised"
        /\ report # PyNone => ~report.raised

\* what the code does: the run ends in the KeyError of the report exactly
\* when a case without a name did not pass
RaisesOnFailedNamelessCase ==
    pc = "raised" =>
        \/ rules_response.kind = "exception"
        \/ /\ report = [raised |-> TRUE]
           /\ \E i \in 1..Len(results) :
                 /\ results[i].name = Absent
                 /\ results[i].test_result.passed = PyBool(FALSE)

\* a run that executed a nameless scenario and ended in an exception
NamelessScenarioRaised ==
    /\ pc = "raised"
    /\ report # PyNone
    /\ results # <<>>

----------------------------------------------------------------------------
(* Properties of the password variations (SpecGen) *)

LowerCaseLetters ==
    {"a", "b", "c", "d", "e", "f", "g", "h", "i", "j", "k", "l", "m",
     "n", "o", "p", "q", "r", "s", "t", "u", "v", "w", "x", "y", "z"}
UpperCaseLetters ==
    {"A", "B", "C", "D", "E", "F", "G", "H", "I", "J", "K", "L", "M",
     "N", "O", "P", "Q", "R", "S", "T", "U", "V", "W", "X", "Y", "Z"}

\* the characters of a string
CharsOf(s) == {SubSeq(s, i, i) : i \in 1..Len(s)}

\* length at least 12, with a lower-case letter, an upper-case letter, a
\* digit and a symbol
MeetsStrongHeuristic(s) ==
    /\ Len(s) >= 12
    /\ CharsOf(s) \cap LowerCaseLetters # {}
    /\ CharsOf(s) \cap UpperCaseLetters # {}
    /\ \E c \in CharsOf(s) : IsDigit(c)
    /\ \E c \in CharsOf(s) :
          c \notin LowerCaseLetters \cup UpperCaseLetters /\ ~IsDigit(c)

\* the variation list of the password field, when it is a selected string field
PasswordList ==
    IF pc = "generated" /\ "password" \in SeqToSet(selected_fields)
    THEN field_variations["password"] ELSE <<>>

\* C24: in the variation list of a password-like string field the entries
\* offered as valid (the first three) meet the strong heuristic and the
\* entries offered as invalid (the last four) violate it.
C24_PasswordEntriesMatchHeuristic ==
    \A i \in 1..Len(PasswordList) :
        MeetsStrongHeuristic(PasswordList[i].v) <=> i <= 3

\* what the code offers: the third valid entry, "Str0ng!P@ss", has 11
\* characters; every other entry is as the heuristic says
OnlyThirdEntryTooShort ==
    \A i \in 1..Len(PasswordList) :
        /\ i # 3 => (MeetsStrongHeuristic(PasswordList[i].v) <=> i <= 3)
        /\ i = 3 => /\ PasswordList[i] = PyStr("Str0ng!P@ss")
                    /\ Len(PasswordList[i].v) = 11

\* a password list was generated
PasswordListGenerated == Len(PasswordList) = 7

----------------------------------------------------------------------------
(* Properties of the Streamlit app (SpecApp) *)

\* C26: after any sequence of Start Analysis, Generate-and-Run and Reset,
\* analysis_complete implies that requirements is not None; test_results is
\* not None only if validation_rules is not None, so that a run whose rule
\* generation failed does not leave the report of an earlier run in place;
\* and after Reset the five session variables have their initial values.
C26_SessionStateConsistent ==
    /\ session_state.analysis_complete => session_state.requirements # PyNone
    /\ session_state.test_results # PyNone =>
          session_state.validation_rules # PyNone
    /\ pc = "reset" => session_state = InitialSessionState

\* what the code keeps: the first and the last part, and a report is only
\* ever present while the analysis is complete
SessionStateExceptStaleReport ==
    /\ session_state.analysis_complete <=> session_state.requirements # PyNone
    /\ session_state.test_results # PyNone => session_state.analysis_complete
    /\ pc = "reset" => session_state = InitialSessionState

\* the report of an earlier run shown after a run whose rules were not parsed
StaleReportAfterFailedRules ==
    /\ pc = "run"
    /\ session_state.validation_rules = PyNone
    /\ session_state.test_results # PyNone
====
